---- MODULE Spec2Model ----
(***************************************************************************)
(* Model of src/server.py: the POST /api/generate handler `generate`, the  *)
(* upstream image service it calls, and the text derivations of its        *)
(* success response (name, ticker, prompt).                                *)
(*                                                                         *)
(* A string of the program is a sequence of characters; a character is a   *)
(* one-element token: "a", "B", " ", or a code point written "U+0130".     *)
(***************************************************************************)
EXTENDS Integers, Sequences, FiniteSets, TLC

(***************************************************************************)
(* Characters and Python's str methods (title, upper, split)               *)
(***************************************************************************)

LowerLetters ==
    << "a","b","c","d","e","f","g","h","i","j","k","l","m",
       "n","o","p","q","r","s","t","u","v","w","x","y","z" >>

UpperLetters ==
    << "A","B","C","D","E","F","G","H","I","J","K","L","M",
       "N","O","P","Q","R","S","T","U","V","W","X","Y","Z" >>

Range(s) == { s[i] : i \in DOMAIN s }

IndexOf(c, s) == CHOOSE i \in DOMAIN s : s[i] = c

\* U+0130 LATIN CAPITAL LETTER I WITH DOT ABOVE, U+0307 COMBINING DOT ABOVE,
\* U+00DF LATIN SMALL LETTER SHARP S.
IsAsciiLower(c) == c \in Range(LowerLetters)
IsAsciiUpper(c) == c \in Range(UpperLetters)
IsAscii(c) == IsAsciiLower(c) \/ IsAsciiUpper(c) \/ c \in {" ", "\t", "'", "1"}

\* str.isspace of one character: what str.split() separates on.
IsSpace(c) == c \in {" ", "\t"}

\* Unicode property Cased (what str.title consults for the previous character).
IsCasedLowerOnly(c) == IsAsciiLower(c) \/ c = "U+00DF"

IsCased(c) == IsAsciiLower(c) \/ IsAsciiUpper(c) \/ c \in {"U+0130", "U+00DF"}

\* Full case mappings of one character, as str.lower / str.upper / str.title
\* apply them: the result is a string, not always of length one.
LowerCh(c) ==
    IF IsAsciiUpper(c) THEN << LowerLetters[IndexOf(c, UpperLetters)] >>
    ELSE IF c = "U+0130" THEN << "i", "U+0307" >>
    ELSE << c >>

UpperCh(c) ==
    IF IsAsciiLower(c) THEN << UpperLetters[IndexOf(c, LowerLetters)] >>
    ELSE IF c = "U+00DF" THEN << "S", "S" >>
    ELSE << c >>

TitleCh(c) ==
    IF IsAsciiLower(c) THEN << UpperLetters[IndexOf(c, LowerLetters)] >>
    ELSE IF c = "U+00DF" THEN << "S", "s" >>
    ELSE << c >>

\* str.title(): a character that follows a cased character is lower-cased,
\* any other is title-cased.
RECURSIVE TitleFrom(_, _, _)
TitleFrom(s, i, previous_is_cased) ==
    IF i > Len(s) THEN << >>
    ELSE (IF previous_is_cased THEN LowerCh(s[i]) ELSE TitleCh(s[i]))
         \o TitleFrom(s, i + 1, IsCased(s[i]))

Title(s) == TitleFrom(s, 1, FALSE)

\* str.upper()
RECURSIVE Upper(_)
Upper(s) == IF s = << >> THEN << >> ELSE UpperCh(Head(s)) \o Upper(Tail(s))

\* str.split() with no argument: the maximal runs of non-whitespace, in order.
\* `cur` is the word being read.
RECURSIVE SplitFrom(_, _, _)
SplitFrom(s, i, cur) ==
    IF i > Len(s)
    THEN (IF cur = << >> THEN << >> ELSE << cur >>)
    ELSE IF IsSpace(s[i])
         THEN (IF cur = << >> THEN << >> ELSE << cur >>) \o SplitFrom(s, i + 1, << >>)
         ELSE SplitFrom(s, i + 1, Append(cur, s[i]))

Split(s) == SplitFrom(s, 1, << >>)

\* words[:3]
TickerWords == 3

FirstWordsTaking(words, n) == SubSeq(words, 1, IF Len(words) < n THEN Len(words) ELSE n)

FirstWordsAll(words) == words

FirstWords(words) == FirstWordsTaking(words, TickerWords)

\* ''.join(word[0].upper() for word in words)
RECURSIVE JoinInitials(_)
JoinInitials(words) ==
    IF words = << >> THEN << >>
    ELSE Upper(<< Head(words)[1] >>) \o JoinInitials(Tail(words))

\* 'ticker': ''.join(word[0].upper() for word in idea.split()[:3])
Ticker(idea) == JoinInitials(FirstWords(Split(idea)))

(***************************************************************************)
(* Fixed tables and constants of the handler                               *)
(***************************************************************************)

\* ART_STYLE_PROMPTS: style key -> descriptive fragment (first phrase kept).
ART_STYLE_PROMPTS ==
    [ k \in {"pixel", "anime", "3d", "minimalist", "cartoon", "realistic"} |->
        CASE k = "pixel"      -> "16-bit pixel art style, retro gaming aesthetic, ..."
          [] k = "anime"      -> "anime art style, manga-inspired, cel-shaded, ..."
          [] k = "3d"         -> "3D rendered style, volumetric lighting, ..."
          [] k = "minimalist" -> "minimalist design, clean lines, simple shapes, ..."
          [] k = "cartoon"    -> "cartoon style, bold outlines, vibrant colors, ..."
          [] k = "realistic"  -> "realistic digital painting, detailed textures, ..." ]

\* data.get('artStyle', 'pixel') and the fallback of ART_STYLE_PROMPTS.get.
DefaultStyle == "pixel"

\* for _ in range(30)
MaxAttempts == 30

\* The status the handler compares upstream responses with.
OK == 200

SuccessFields == {"imageUrl", "name", "ticker", "description", "socialLinks", "success"}

(***************************************************************************)
(* Requests: the JSON body of POST /api/generate                           *)
(***************************************************************************)

\* body: "object" (a JSON object), "invalid_json" (request.json() raises) or
\* "not_object" (valid JSON that is no object: data.get raises).
\* idea: absent, a string (val), or a non-string truthy value (the number 1).
\* artStyle: absent, a string (key), or an unhashable JSON value (an array).
MkRequest(body, ideaType, ideaVal, styleType, styleKey) ==
    [ body |-> body,
      idea |-> [type |-> ideaType, val |-> ideaVal],
      artStyle |-> [type |-> styleType, key |-> styleKey] ]

NoRequest == MkRequest("none", "absent", << >>, "absent", "")

Doge == << "D", "o", "g", "e" >>
HappyMoonDog == << "H","a","p","p","y"," ","M","o","o","n"," ","D","o","g" >>
ToTheMoonNow == << "t","o"," "," ","t","h","e","\t","m","O","O","N"," ","n","o","w"," " >>

\* `not idea`
IdeaFalsy(idea) == idea.type = "absent" \/ (idea.type = "str" /\ idea.val = << >>)

\* art_style = data.get('artStyle', 'pixel')
art_style(q) == IF q.artStyle.type = "absent" THEN DefaultStyle ELSE q.artStyle.key

\* style_prompt = ART_STYLE_PROMPTS.get(art_style, ART_STYLE_PROMPTS['pixel'])
style_prompt_no_fallback(key) ==
    IF key \in DOMAIN ART_STYLE_PROMPTS THEN ART_STYLE_PROMPTS[key] ELSE ""

style_prompt(key) ==
    IF key \in DOMAIN ART_STYLE_PROMPTS
    THEN ART_STYLE_PROMPTS[key]
    ELSE ART_STYLE_PROMPTS[DefaultStyle]

\* base_prompt: the fixed template around {idea} and {style_prompt}.
base_prompt(idea, key) ==
    [ head  |-> "detailed cryptocurrency mascot logo of a ",
      idea  |-> idea.val,
      style |-> style_prompt(key),
      tail  |-> "centered composition, clean vectorized style, suitable for crypto token, professional logo design" ]

NoPrompt == [ head |-> "", idea |-> << >>, style |-> "", tail |-> "" ]

(***************************************************************************)
(* Responses of the handler                                                *)
(***************************************************************************)

NoResponse ==
    [ status |-> 0, fields |-> {}, error |-> << >>, imageUrl |-> "",
      name |-> << >>, ticker |-> << >>, description |-> << >> ]

\* web.json_response({"error": prefix + detail}, status=status)
ErrorResponse(status, prefix, detail) ==
    [ status |-> status, fields |-> {"error"}, error |-> << prefix, detail >>,
      imageUrl |-> "", name |-> << >>, ticker |-> << >>, description |-> << >> ]

\* web.json_response({'imageUrl': ..., 'name': ..., 'ticker': ..., ...}) : status 200
SuccessResponse(image_url, idea) ==
    [ status |-> OK, fields |-> SuccessFields, error |-> << >>,
      imageUrl |-> image_url, name |-> Title(idea), ticker |-> Ticker(idea),
      description |-> idea ]

\* The three except/return shapes of the handler.
OuterError(exc) == ErrorResponse(500, "", exc)
ApiError(exc) == ErrorResponse(500, "API request failed: ", exc)
TimeoutError == ErrorResponse(500, "Timeout waiting for image", "")
NoIdeaError == ErrorResponse(400, "No idea provided", "")
UpstreamError(status, text) == ErrorResponse(status, "Failed to generate image: ", text)

(***************************************************************************)
(* The upstream image service: what it may answer                          *)
(***************************************************************************)

\* Answer to POST /generations. net = "fail": the call raises (network).
\* generationId = "": the 200 body has no sdGenerationJob.generationId
\* (or is not JSON).
SubmitAnswer(net, status, text, id) ==
    [ net |-> net, status |-> status, text |-> text, generationId |-> id ]

NoSubmitAnswer == SubmitAnswer("none", 0, "", "")

AllSubmitAnswers ==
    { SubmitAnswer("fail", 0, "", "") }
    \cup { SubmitAnswer("ok", OK, "json", id) : id \in {"g1", "g2", ""} }
    \cup { SubmitAnswer("ok", st, tx, "") :
             st \in {201, 429, 503}, tx \in {"quota exceeded", "unavailable"} }

\* Answer to GET /generations/{id}. state = "missing": the 200 body lacks
\* generations_by_pk or status. images: the urls of generated_images.
CheckAnswer(net, status, state, images) ==
    [ net |-> net, status |-> status, state |-> state, images |-> images ]

NoCheckAnswer == CheckAnswer("none", 0, "", << >>)

Pending == CheckAnswer("ok", OK, "PENDING", << >>)
Unavailable == CheckAnswer("ok", 503, "", << >>)
Complete(images) == CheckAnswer("ok", OK, "COMPLETE", images)

AllCheckAnswers ==
    { CheckAnswer("fail", 0, "", << >>), Unavailable, Pending,
      CheckAnswer("ok", OK, "missing", << >>),
      Complete(<< >>), Complete(<< "u1" >>), Complete(<< "u2", "u1" >>) }

\* The upstream's behaviour for one job. free: any answer to any call.
\* Otherwise the answers are fixed in advance: `submit` to the job creation,
\* `pre` to the status queries before number readyAt, `final` from then on.
Plan(free, submit, pre, readyAt, final) ==
    [ free |-> free, submit |-> submit, pre |-> pre, readyAt |-> readyAt, final |-> final ]

FreePlan == Plan(TRUE, NoSubmitAnswer, NoCheckAnswer, 0, NoCheckAnswer)

PlannedCheck(p, k) == IF k < p.readyAt THEN p.pre ELSE p.final

(***************************************************************************)
(* The handler's decisions, between two await points                       *)
(***************************************************************************)

\* Lines 43-54: parse the body, validate idea, look the style up.
\* NoResponse: the handler goes on to the job creation.
OnRequestNoneOnly(q) ==
    IF q.body = "invalid_json" THEN OuterError("JSONDecodeError")
    ELSE IF q.body = "not_object" THEN OuterError("AttributeError: no attribute 'get'")
    ELSE IF q.idea.type = "absent" THEN NoIdeaError
    ELSE IF q.artStyle.type = "list" THEN OuterError("TypeError: unhashable type")
    ELSE NoResponse

OnRequest(q) ==
    IF q.body = "invalid_json" THEN OuterError("JSONDecodeError")
    ELSE IF q.body = "not_object" THEN OuterError("AttributeError: no attribute 'get'")
    ELSE IF IdeaFalsy(q.idea) THEN NoIdeaError
    ELSE IF q.artStyle.type = "list" THEN OuterError("TypeError: unhashable type")
    ELSE NoResponse

\* Lines 83-99: the job-creation response. NoResponse: the poll loop starts.
OnCreatedAs500(a) ==
    IF a.net = "fail" THEN ApiError("ClientError")
    ELSE IF a.status # OK THEN UpstreamError(500, a.text)
    ELSE IF a.generationId = "" THEN ApiError("KeyError: 'sdGenerationJob'")
    ELSE NoResponse

OnCreatedAny2xx(a) ==
    IF a.net = "fail" THEN ApiError("ClientError")
    ELSE IF a.status \notin 200 .. 299 THEN UpstreamError(a.status, a.text)
    ELSE IF a.status = OK /\ a.generationId = "" THEN ApiError("KeyError: 'sdGenerationJob'")
    ELSE NoResponse

OnCreated(a) ==
    IF a.net = "fail" THEN ApiError("ClientError")
    ELSE IF a.status # OK THEN UpstreamError(a.status, a.text)
    ELSE IF a.generationId = "" THEN ApiError("KeyError: 'sdGenerationJob'")
    ELSE NoResponse

\* Line 107 without an else: a status query answered with a non-200 status
\* is passed over.
OnCheckFailedPassesStatus(a) == UpstreamError(a.status, "")

OnCheckFailed(a) == NoResponse

\* Lines 110-118: the job is COMPLETE: the first image's url and the
\* derived fields ([0] raises on no image, idea.title on a non-string).
OnCompleteLastImage(q, a) ==
    IF a.images = << >> THEN ApiError("IndexError")
    ELSE IF q.idea.type # "str" THEN ApiError("AttributeError: no attribute 'title'")
    ELSE SuccessResponse(a.images[Len(a.images)], q.idea.val)

OnCompleteNoImage(q, a) ==
    IF q.idea.type # "str" THEN ApiError("AttributeError: no attribute 'title'")
    ELSE SuccessResponse(IF a.images = << >> THEN "" ELSE a.images[1], q.idea.val)

OnComplete(q, a) ==
    IF a.images = << >> THEN ApiError("IndexError")
    ELSE IF q.idea.type # "str" THEN ApiError("AttributeError: no attribute 'title'")
    ELSE SuccessResponse(a.images[1], q.idea.val)

\* Lines 103-118: one status query's response. NoResponse: the loop goes on
\* to the sleep of line 119.
OnCheckLenient(q, a) ==
    IF a.net = "fail" THEN NoResponse
    ELSE IF a.status = OK
         THEN IF a.state = "COMPLETE" /\ a.images # << >> THEN OnComplete(q, a)
              ELSE NoResponse
         ELSE OnCheckFailed(a)

OnCheck(q, a) ==
    IF a.net = "fail" THEN ApiError("ClientError")
    ELSE IF a.status = OK
         THEN IF a.state = "missing" THEN ApiError("KeyError: 'generations_by_pk'")
              ELSE IF a.state = "COMPLETE" THEN OnComplete(q, a)
              ELSE NoResponse
         ELSE OnCheckFailed(a)

\* for _ in range(30): another iteration follows the n-th.
MoreAttemptsInclusive(n) == n <= MaxAttempts

\* for _ in range(30): another iteration follows the n-th.
MoreAttempts(n) == n < MaxAttempts

(***************************************************************************)
(* State                                                                   *)
(***************************************************************************)

NumReqs == 2
Reqs == 1 .. NumReqs

VARIABLES
    req,            \* req[r]: the body of request r
    plan,           \* plan[r]: the upstream's behaviour for r's job
    pc,             \* pc[r]: "idle", "start", "posting", "poll", "sleep", "done"
    resp,           \* resp[r]: the response returned (NoResponse before)
    prompt,         \* prompt[r]: payload["prompt"] of the job creation
    posts,          \* posts[r]: job-creation requests issued
    attempts,       \* attempts[r]: status queries issued
    sleeps,         \* sleeps[r]: sleeps of line 119 completed
    created,        \* created[r]: the upstream's answer to the job creation
    generation_id,  \* generation_id[r]
    queried,        \* queried[r]: the id in the url of the last status query
    checked,        \* checked[r]: the upstream's answer to the last status query
    nFailed,        \* nFailed[r]: status queries answered with a non-200 status
    nPending,       \* nPending[r]: answered 200 with a state other than COMPLETE
    completeAt      \* completeAt[r]: number of the first status query answered
                    \* 200 COMPLETE with an image (0: none yet)

vars == << req, plan, pc, resp, prompt, posts, attempts, sleeps, created,
           generation_id, queried, checked, nFailed, nPending, completeAt >>

\* What the upstream may answer to r's calls.
SubmitAnswers(r) == IF plan[r].free THEN AllSubmitAnswers ELSE { plan[r].submit }

CheckAnswers(r, k) ==
    IF plan[r].free THEN AllCheckAnswers ELSE { PlannedCheck(plan[r], k) }

\* The state after the server accepted the requests qs (NoRequest: none)
\* with the upstream behaving as ps.
Accepted(qs, ps) ==
    /\ req = qs
    /\ plan = ps
    /\ pc = [r \in Reqs |-> IF qs[r] = NoRequest THEN "idle" ELSE "start"]
    /\ resp = [r \in Reqs |-> NoResponse]
    /\ prompt = [r \in Reqs |-> NoPrompt]
    /\ posts = [r \in Reqs |-> 0]
    /\ attempts = [r \in Reqs |-> 0]
    /\ sleeps = [r \in Reqs |-> 0]
    /\ created = [r \in Reqs |-> NoSubmitAnswer]
    /\ generation_id = [r \in Reqs |-> ""]
    /\ queried = [r \in Reqs |-> ""]
    /\ checked = [r \in Reqs |-> NoCheckAnswer]
    /\ nFailed = [r \in Reqs |-> 0]
    /\ nPending = [r \in Reqs |-> 0]
    /\ completeAt = [r \in Reqs |-> 0]

\* One request alone.
Single(q, p) ==
    Accepted([r \in Reqs |-> IF r = 1 THEN q ELSE NoRequest], [r \in Reqs |-> p])

(***************************************************************************)
(* The handler `generate`, one action per stretch between await points     *)
(***************************************************************************)

\* The event loop runs any coroutine that is not finished; a coroutine in
\* `await web.asyncio.sleep(1)` holds nothing the others need.
ReadyUnlessOtherSleeps(r) ==
    /\ pc[r] \notin {"idle", "done"}
    /\ \A o \in Reqs \ {r} : pc[o] # "sleep"

Ready(r) == pc[r] \notin {"idle", "done"}

Respond(r, response) ==
    /\ resp' = [resp EXCEPT ![r] = response]
    /\ pc' = [pc EXCEPT ![r] = "done"]

\* Lines 43-87: read the body, validate, build the prompt, issue the POST.
Receive(r) ==
    /\ Ready(r)
    /\ pc[r] = "start"
    /\ LET out == OnRequest(req[r]) IN
         IF out # NoResponse
         THEN /\ Respond(r, out)
              /\ UNCHANGED << prompt, posts >>
         ELSE /\ prompt' = [prompt EXCEPT ![r] = base_prompt(req[r].idea, art_style(req[r]))]
              /\ posts' = [posts EXCEPT ![r] = @ + 1]
              /\ pc' = [pc EXCEPT ![r] = "posting"]
              /\ UNCHANGED resp
    /\ UNCHANGED << req, plan, attempts, sleeps, created, generation_id, queried,
                    checked, nFailed, nPending, completeAt >>

\* Lines 88-99: the job-creation call returns (or raises).
SubmitReturn(r) ==
    /\ Ready(r)
    /\ pc[r] = "posting"
    /\ \E a \in SubmitAnswers(r) :
         /\ created' = [created EXCEPT ![r] = a]
         /\ LET out == OnCreated(a) IN
              IF out # NoResponse
              THEN /\ Respond(r, out)
                   /\ UNCHANGED generation_id
              ELSE /\ generation_id' = [generation_id EXCEPT ![r] = a.generationId]
                   /\ pc' = [pc EXCEPT ![r] = "poll"]
                   /\ UNCHANGED resp
    /\ UNCHANGED << req, plan, prompt, posts, attempts, sleeps, queried, checked,
                    nFailed, nPending, completeAt >>

\* Lines 103-118: one iteration's status query and what the handler does
\* with the answer.
Poll(r) ==
    /\ Ready(r)
    /\ pc[r] = "poll"
    /\ attempts' = [attempts EXCEPT ![r] = @ + 1]
    /\ queried' = [queried EXCEPT ![r] = generation_id[r]]
    /\ \E a \in CheckAnswers(r, attempts[r] + 1) :
         /\ checked' = [checked EXCEPT ![r] = a]
         /\ nFailed' = [nFailed EXCEPT ![r] =
                          IF a.net = "ok" /\ a.status # OK THEN @ + 1 ELSE @]
         /\ nPending' = [nPending EXCEPT ![r] =
                          IF a.net = "ok" /\ a.status = OK
                             /\ a.state \notin {"COMPLETE", "missing"} THEN @ + 1 ELSE @]
         /\ completeAt' = [completeAt EXCEPT ![r] =
                          IF @ = 0 /\ a.net = "ok" /\ a.status = OK
                             /\ a.state = "COMPLETE" /\ a.images # << >>
                          THEN attempts[r] + 1 ELSE @]
         /\ LET out == OnCheck(req[r], a) IN
              IF out # NoResponse
              THEN Respond(r, out)
              ELSE /\ pc' = [pc EXCEPT ![r] = "sleep"]
                   /\ UNCHANGED resp
    /\ UNCHANGED << req, plan, prompt, posts, sleeps, created, generation_id >>

\* Lines 119-121: the sleep ends; the loop takes its next iteration or,
\* after the last one, the handler returns the timeout error.
Sleep(r) ==
    /\ Ready(r)
    /\ pc[r] = "sleep"
    /\ sleeps' = [sleeps EXCEPT ![r] = @ + 1]
    /\ IF MoreAttempts(attempts[r])
       THEN /\ pc' = [pc EXCEPT ![r] = "poll"]
            /\ UNCHANGED resp
       ELSE Respond(r, TimeoutError)
    /\ UNCHANGED << req, plan, prompt, posts, attempts, created, generation_id,
                    queried, checked, nFailed, nPending, completeAt >>

Step(r) == Receive(r) \/ SubmitReturn(r) \/ Poll(r) \/ Sleep(r)

Next == \E r \in Reqs : Step(r)

(***************************************************************************)
(* Specifications                                                          *)
(***************************************************************************)

\* Spec: one request, drawn from SampleRequests, against an upstream that
\* may answer anything to every call.
SampleRequests ==
    { MkRequest("invalid_json", "absent", << >>, "absent", ""),
      MkRequest("not_object", "absent", << >>, "absent", "") }
    \cup { MkRequest("object", "absent", << >>, st[1], st[2]) :
             st \in { <<"absent", "">>, <<"str", "anime">>, <<"list", "">> } }
    \cup { MkRequest("object", "str", v, st[1], st[2]) :
             v \in { << >>, Doge },
             st \in { <<"absent", "">>, <<"str", "anime">>, <<"list", "">> } }
    \cup { MkRequest("object", "int", << "1" >>, "str", "bogus") }

Init == \E q \in SampleRequests : Single(q, FreePlan)

Spec == Init /\ [][Next]_vars

\* SpecLive: Spec with the scheduling the event loop gives. Every upstream
\* call returns or raises and every sleep ends, so a handler that can take
\* its next step eventually takes it.
SpecLive == Init /\ [][Next]_vars /\ \A r \in Reqs : WF_vars(Step(r))

\* SpecText: one request whose idea ranges over every string of at most
\* MaxIdeaLen characters of TextAlphabet (and the sample ideas, under every
\* style key), against a job that completes on its second status query.
MaxIdeaLen == 5

TextAlphabet == { "a", "B", " ", "'", "U+0130", "U+00DF" }

SampleIdeas == { Doge, HappyMoonDog, ToTheMoonNow }

AllIdeas == UNION { [1 .. n -> TextAlphabet] : n \in 0 .. MaxIdeaLen } \cup SampleIdeas

SampleStyleKeys == DOMAIN ART_STYLE_PROMPTS \cup { "bogus", "Pixel", "" }

TextRequests ==
    { MkRequest("object", "str", v, "absent", "") : v \in AllIdeas }
    \cup { MkRequest("object", "str", v, "str", k) : v \in SampleIdeas, k \in SampleStyleKeys }

TextPlan ==
    Plan(FALSE, SubmitAnswer("ok", OK, "json", "g1"), Pending, 2, Complete(<< "u1" >>))

InitText == \E q \in TextRequests : Single(q, TextPlan)

SpecText == InitText /\ [][Next]_vars

\* SpecConc: NumReqs requests in flight at once, each against a job whose
\* answers are fixed in advance, so that a run can be compared with the
\* same request served alone.
ConcCases ==
    { << MkRequest("object", "absent", << >>, "absent", ""),
         Plan(FALSE, SubmitAnswer("ok", OK, "json", "g1"), Pending, 1, Complete(<< "u1" >>)) >>,
      << MkRequest("object", "str", Doge, "str", "anime"),
         Plan(FALSE, SubmitAnswer("ok", 429, "quota exceeded", ""), Pending, 1, Pending) >>,
      << MkRequest("object", "str", Doge, "str", "anime"),
         Plan(FALSE, SubmitAnswer("ok", OK, "json", "g1"), Unavailable, 2, Complete(<< "u1" >>)) >>,
      << MkRequest("object", "str", Doge, "absent", ""),
         Plan(FALSE, SubmitAnswer("ok", OK, "json", "g2"), Pending, MaxAttempts + 1, Pending) >> }

InitConc ==
    \E cs \in [Reqs -> ConcCases] :
        Accepted([r \in Reqs |-> cs[r][1]], [r \in Reqs |-> cs[r][2]])

SpecConc == InitConc /\ [][Next]_vars

\* The handler run from start to end with nothing else running: the
\* response and the number of status queries, against the job's plan p.
RECURSIVE PollLoop(_, _, _)
PollLoop(q, p, k) ==
    LET out == OnCheck(q, PlannedCheck(p, k)) IN
      IF out # NoResponse THEN [resp |-> out, attempts |-> k]
      ELSE IF MoreAttempts(k) THEN PollLoop(q, p, k + 1)
      ELSE [resp |-> TimeoutError, attempts |-> k]

RunAlone(q, p) ==
    IF OnRequest(q) # NoResponse THEN [resp |-> OnRequest(q), attempts |-> 0]
    ELSE IF OnCreated(p.submit) # NoResponse
         THEN [resp |-> OnCreated(p.submit), attempts |-> 0]
         ELSE PollLoop(q, p, 1)

(***************************************************************************)
(* What the upstream has answered so far, read off the recorded answers     *)
(***************************************************************************)

\* The job creation returned 200 with a generation id: the poll loop runs.
JobCreated(r) ==
    created[r].net = "ok" /\ created[r].status = OK /\ created[r].generationId # ""

\* Every status query so far returned a non-200 status or 200 with a state
\* other than COMPLETE.
NeverComplete(r) == nFailed[r] + nPending[r] = attempts[r]

\* The last status query returned 200, state COMPLETE, at least one image.
CheckedComplete(r) ==
    /\ checked[r].net = "ok" /\ checked[r].status = OK
    /\ checked[r].state = "COMPLETE" /\ checked[r].images # << >>

IsError(response) == "error" \in response.fields
IsSuccess(response) == SuccessFields \cap response.fields # {}

\* Something raised in the flow of request r (it has run to its end).
Raised(r) ==
    \/ req[r].body \in {"invalid_json", "not_object"}
    \/ /\ req[r].body = "object" /\ ~IdeaFalsy(req[r].idea)
       /\ req[r].artStyle.type = "list"
    \/ created[r].net = "fail"
    \/ created[r].net = "ok" /\ created[r].status = OK /\ created[r].generationId = ""
    \/ checked[r].net = "fail"
    \/ /\ checked[r].net = "ok" /\ checked[r].status = OK
       /\ \/ checked[r].state = "missing"
          \/ checked[r].state = "COMPLETE" /\ checked[r].images = << >>
          \/ checked[r].state = "COMPLETE" /\ req[r].idea.type # "str"

(***************************************************************************)
(* C1. If the job was created and every status query returns a non-200     *)
(* status or 200 with a state other than COMPLETE, the handler never makes *)
(* more than 30 status queries, does not respond before the 30th, and      *)
(* after the 30th only its last sleep separates it from the response,      *)
(* which is 500 "Timeout waiting for image".                               *)
(***************************************************************************)
C1_TimeoutAfterExactly30 ==
    \A r \in Reqs :
        (JobCreated(r) /\ NeverComplete(r)) =>
            /\ attempts[r] <= 30
            /\ attempts[r] < 30 => pc[r] \in {"poll", "sleep"}
            /\ attempts[r] = 30 => pc[r] \in {"sleep", "done"}
            /\ pc[r] = "done" =>
                 /\ attempts[r] = 30
                 /\ resp[r].status = 500
                 /\ resp[r].fields = {"error"}
                 /\ resp[r].error = << "Timeout waiting for image", "" >>

C1_Witness ==
    \E r \in Reqs :
        /\ JobCreated(r) /\ NeverComplete(r)
        /\ nFailed[r] > 0 /\ nPending[r] > 0
        /\ pc[r] = "done" /\ attempts[r] = 30
        /\ resp[r] = TimeoutError

(***************************************************************************)
(* C2. For a request with a string idea: once the upstream has answered    *)
(* status query number k (1..30) with the first 200 COMPLETE carrying an   *)
(* image, the handler has responded, having made exactly k status queries, *)
(* with 200, success, and imageUrl the first image url of that answer.     *)
(***************************************************************************)
C2_ExitsOnFirstComplete ==
    \A r \in Reqs :
        (completeAt[r] > 0 /\ req[r].idea.type = "str") =>
            /\ completeAt[r] \in 1 .. 30
            /\ pc[r] = "done"
            /\ attempts[r] = completeAt[r]
            /\ CheckedComplete(r)
            /\ resp[r].status = 200
            /\ resp[r].fields = SuccessFields
            /\ resp[r].imageUrl = checked[r].images[1]

C2_Witness ==
    \E r \in Reqs :
        /\ completeAt[r] = 30 /\ attempts[r] = 30 /\ sleeps[r] = 29
        /\ checked[r].images = << "u2", "u1" >>
        /\ resp[r].status = 200 /\ resp[r].imageUrl = "u2"

(***************************************************************************)
(* C3. If the job-creation call returned a non-200 status, the handler has *)
(* responded with that status and an error body that carries the upstream  *)
(* response text, and no status query was issued.                          *)
(***************************************************************************)
C3_UpstreamStatusPassedOn ==
    \A r \in Reqs :
        (created[r].net = "ok" /\ created[r].status # 200) =>
            /\ pc[r] = "done"
            /\ resp[r].status = created[r].status
            /\ resp[r].fields = {"error"}
            /\ resp[r].error = << "Failed to generate image: ", created[r].text >>
            /\ attempts[r] = 0
            /\ queried[r] = ""

C3_Witness ==
    \E r \in Reqs :
        /\ created[r].status = 429 /\ created[r].text = "quota exceeded"
        /\ pc[r] = "done" /\ resp[r].status = 429 /\ attempts[r] = 0

(***************************************************************************)
(* C4 as stated: every error response has status 400 or 500, whatever the  *)
(* upstream returns.                                                       *)
(***************************************************************************)
C4_Original ==
    \A r \in Reqs :
        (pc[r] = "done" /\ IsError(resp[r])) =>
            /\ resp[r].fields = {"error"}
            /\ resp[r].status \in {400, 500}

(***************************************************************************)
(* C4 amended. Every error response is a JSON object with only an error    *)
(* field; its status is 400 exactly for the missing idea, and otherwise    *)
(* 500 or, when the job-creation call returned a non-200 status, that      *)
(* status. The status of a status query is never passed on.                *)
(***************************************************************************)
C4_ErrorStatus ==
    \A r \in Reqs :
        (pc[r] = "done" /\ IsError(resp[r])) =>
            /\ resp[r].fields = {"error"}
            /\ resp[r].error # << >>
            /\ \/ resp[r].status = 400 /\ resp[r].error[1] = "No idea provided"
               \/ resp[r].status = 500
                    /\ ~(created[r].net = "ok" /\ created[r].status # 200)
               \/ /\ created[r].net = "ok" /\ created[r].status # 200
                  /\ resp[r].status = created[r].status
                  /\ resp[r].error[1] = "Failed to generate image: "

C4_Witness ==
    \E r \in Reqs :
        /\ pc[r] = "done" /\ IsError(resp[r])
        /\ created[r].status = 503
        /\ resp[r].status = 503

(***************************************************************************)
(* C5. A request whose JSON object lacks idea, or carries an empty idea,   *)
(* is answered 400 "No idea provided" by the handler's first step, with no *)
(* job-creation request and no status query, whatever its artStyle.        *)
(***************************************************************************)
C5_NoIdea ==
    \A r \in Reqs :
        ( /\ req[r].body = "object"
          /\ req[r].idea.type = "absent" \/ req[r].idea = [type |-> "str", val |-> << >>]
          /\ pc[r] # "start" ) =>
            /\ pc[r] = "done"
            /\ resp[r].status = 400
            /\ resp[r].fields = {"error"}
            /\ resp[r].error = << "No idea provided", "" >>
            /\ posts[r] = 0
            /\ attempts[r] = 0

C5_Witness ==
    \E r \in Reqs :
        /\ req[r].idea = [type |-> "str", val |-> << >>]
        /\ req[r].artStyle.type = "list"
        /\ pc[r] = "done" /\ resp[r].status = 400 /\ posts[r] = 0

(***************************************************************************)
(* C6. No response before the end of the flow; a response with success or  *)
(* imageUrl (or any other success field) only after a job creation         *)
(* answered 200 and a later status query answered 200 COMPLETE with an     *)
(* image; whenever something raised, the response is 500 with only an      *)
(* error field.                                                            *)
(***************************************************************************)
C6_NoPartialResult ==
    \A r \in Reqs :
        /\ pc[r] # "done" => resp[r] = NoResponse
        /\ pc[r] = "done" =>
             /\ resp[r].fields \in { {"error"}, SuccessFields }
             /\ IsSuccess(resp[r]) =>
                  /\ posts[r] = 1 /\ JobCreated(r)
                  /\ attempts[r] >= 1 /\ CheckedComplete(r)
                  /\ resp[r].status = 200
                  /\ resp[r].imageUrl = checked[r].images[1]
                  /\ ~Raised(r)
             /\ Raised(r) =>
                  /\ resp[r].status = 500
                  /\ resp[r].fields = {"error"}
                  /\ resp[r].imageUrl = ""

C6_Witness ==
    \E r \in Reqs :
        /\ pc[r] = "done" /\ JobCreated(r)
        /\ nPending[r] > 0
        /\ checked[r] = Complete(<< >>)
        /\ resp[r].status = 500 /\ resp[r].fields = {"error"}

(***************************************************************************)
(* C7. With several requests in flight, interleaved at every await point:  *)
(* each request that has responded gave the response, after the number of  *)
(* status queries, that it gives when served alone against the same        *)
(* answers for its own job; and every unfinished request can take its next *)
(* step whatever the others are doing, sleeping included.                  *)
(***************************************************************************)
C7_RequestsIndependent ==
    \A r \in Reqs :
        /\ pc[r] \in {"start", "posting", "poll", "sleep"} => ENABLED Step(r)
        /\ pc[r] = "done" =>
             LET alone == RunAlone(req[r], plan[r]) IN
               /\ resp[r] = alone.resp
               /\ attempts[r] = alone.attempts

C7_Witness ==
    \E r, o \in Reqs :
        /\ r # o
        /\ pc[r] = "sleep" /\ attempts[r] = 7
        /\ pc[o] = "done" /\ resp[o].status = 200 /\ attempts[o] = 2 /\ sleeps[o] = 1

(***************************************************************************)
(* C8. For a request that passes validation and whose artStyle is absent   *)
(* or a string: the job creation is issued (the request is not rejected),  *)
(* and the prompt submitted carries the fragment of the key when the key   *)
(* is one of the six recognized ones, the pixel fragment otherwise; the    *)
(* six fragments are pairwise different.                                   *)
(***************************************************************************)
C8_StyleFragment ==
    /\ \A k1, k2 \in DOMAIN ART_STYLE_PROMPTS :
          k1 # k2 => ART_STYLE_PROMPTS[k1] # ART_STYLE_PROMPTS[k2]
    /\ \A r \in Reqs :
        ( /\ req[r].body = "object" /\ ~IdeaFalsy(req[r].idea)
          /\ req[r].artStyle.type \in {"absent", "str"}
          /\ pc[r] # "start" ) =>
            /\ posts[r] = 1
            /\ pc[r] = "done" => resp[r].status \notin {400, 404, 422}
            /\ prompt[r].idea = req[r].idea.val
            /\ IF /\ req[r].artStyle.type = "str"
                  /\ req[r].artStyle.key \in
                       {"pixel", "anime", "3d", "minimalist", "cartoon", "realistic"}
               THEN prompt[r].style = ART_STYLE_PROMPTS[req[r].artStyle.key]
               ELSE prompt[r].style = ART_STYLE_PROMPTS["pixel"]

C8_Witness ==
    \E r \in Reqs :
        /\ req[r].artStyle = [type |-> "str", key |-> "Pixel"]
        /\ posts[r] = 1 /\ resp[r].status = 200
        /\ prompt[r].style = ART_STYLE_PROMPTS["pixel"]

\* The positions where a word of s starts, the first three of them, and the
\* upper-cased characters at the positions P, in order.
WordStarts(s) ==
    { i \in 1 .. Len(s) : ~IsSpace(s[i]) /\ (i = 1 \/ IsSpace(s[i - 1])) }

LeadingStarts(s) ==
    { i \in WordStarts(s) : Cardinality({ j \in WordStarts(s) : j < i }) < 3 }

RECURSIVE InitialsAt(_, _)
InitialsAt(s, P) ==
    IF P = {} THEN << >>
    ELSE LET m == CHOOSE i \in P : \A j \in P : i <= j
         IN  UpperCh(s[m]) \o InitialsAt(s, P \ {m})

(***************************************************************************)
(* C9 as stated: in every success response the ticker is the upper-cased   *)
(* first letters of the first min(3, n) words of idea, and its length is   *)
(* between 1 and 3.                                                        *)
(***************************************************************************)
C9_Original ==
    \A r \in Reqs :
        (pc[r] = "done" /\ IsSuccess(resp[r])) =>
            /\ resp[r].ticker = InitialsAt(req[r].idea.val, LeadingStarts(req[r].idea.val))
            /\ Len(resp[r].ticker) \in 1 .. 3

(***************************************************************************)
(* C9 amended. In every success response the ticker is the upper-cased     *)
(* first characters of the first min(3, n) words of idea, in order. Its    *)
(* length is min(3, n), between 1 and 3, when n >= 1 and each of those     *)
(* characters upper-cases to one character; it is empty for an idea of     *)
(* whitespace only (n = 0). "Happy Moon Dog" gives "HMD", "Doge" gives     *)
(* "D", and a fourth word contributes nothing.                             *)
(***************************************************************************)
C9_Ticker ==
    \A r \in Reqs :
        (pc[r] = "done" /\ IsSuccess(resp[r])) =>
            LET idea == req[r].idea.val
                n == Cardinality(WordStarts(idea))
                first == LeadingStarts(idea)
            IN  /\ resp[r].ticker = InitialsAt(idea, first)
                /\ Cardinality(first) = (IF n < 3 THEN n ELSE 3)
                /\ (n >= 1 /\ \A i \in first : Len(UpperCh(idea[i])) = 1) =>
                      /\ Len(resp[r].ticker) = Cardinality(first)
                      /\ Len(resp[r].ticker) \in 1 .. 3
                /\ n = 0 => resp[r].ticker = << >>
                /\ idea = HappyMoonDog => resp[r].ticker = << "H", "M", "D" >>
                /\ idea = Doge => resp[r].ticker = << "D" >>

C9_Witness ==
    \E r \in Reqs :
        /\ pc[r] = "done" /\ IsSuccess(resp[r])
        /\ req[r].idea.val = ToTheMoonNow
        /\ Cardinality(WordStarts(req[r].idea.val)) = 4
        /\ resp[r].ticker = << "T", "T", "M" >>

(***************************************************************************)
(* C10 as stated: for every idea, the name of a success response is        *)
(* unchanged when title-cased again.                                       *)
(***************************************************************************)
C10_Original ==
    \A r \in Reqs :
        (pc[r] = "done" /\ IsSuccess(resp[r])) => Title(resp[r].name) = resp[r].name

(***************************************************************************)
(* C10 amended. For every idea made of ASCII characters, the name of a     *)
(* success response is unchanged when title-cased again.                   *)
(***************************************************************************)
C10_TitleIdempotentAscii ==
    \A r \in Reqs :
        ( /\ pc[r] = "done" /\ IsSuccess(resp[r])
          /\ \A i \in DOMAIN req[r].idea.val : IsAscii(req[r].idea.val[i]) ) =>
            Title(resp[r].name) = resp[r].name

C10_Witness ==
    \E r \in Reqs :
        /\ pc[r] = "done" /\ IsSuccess(resp[r])
        /\ req[r].idea.val = << "a", "'", "B", "B", "a" >>
        /\ resp[r].name = << "A", "'", "B", "b", "a" >>
        /\ Title(resp[r].name) = resp[r].name

(***************************************************************************)
(* C11. A status query answered with a non-200 status never ends the       *)
(* request and uses up one of the 30 attempts: while every answer so far   *)
(* was non-200 the handler has not responded before the 30th query, and    *)
(* after 30 of them it responds with the timeout error, not with an        *)
(* upstream-error; when the first j (j < 30) answers were non-200 and      *)
(* answer j+1 is 200 COMPLETE with an image, the response (string idea) is *)
(* 200 success after j+1 status queries.                                   *)
(***************************************************************************)
C11_FailedQuerySkipped ==
    \A r \in Reqs :
        /\ (checked[r].net = "ok" /\ checked[r].status # 200) =>
              /\ pc[r] \in {"sleep", "poll", "done"}
              /\ pc[r] = "done" => (attempts[r] = 30 /\ resp[r] = TimeoutError)
        /\ (JobCreated(r) /\ nFailed[r] = attempts[r]) =>
              /\ attempts[r] <= 30
              /\ attempts[r] < 30 => (pc[r] \in {"poll", "sleep"} /\ resp[r] = NoResponse)
              /\ pc[r] = "done" =>
                   /\ attempts[r] = 30
                   /\ resp[r].status = 500
                   /\ resp[r].error = << "Timeout waiting for image", "" >>
        /\ (completeAt[r] = nFailed[r] + 1 /\ req[r].idea.type = "str") =>
              /\ nFailed[r] < 30
              /\ pc[r] = "done"
              /\ attempts[r] = nFailed[r] + 1
              /\ resp[r].status = 200
              /\ resp[r].fields = SuccessFields

C11_Witness ==
    \E r \in Reqs :
        /\ nFailed[r] = 29 /\ completeAt[r] = 30 /\ attempts[r] = 30
        /\ pc[r] = "done" /\ resp[r].status = 200 /\ IsSuccess(resp[r])

(***************************************************************************)
(* C12. Waits happen only between status queries: a request that has made  *)
(* n >= 1 status queries has slept exactly n - 1 times when it responds,   *)
(* the timed-out request (n = 30) included; and while it runs it has never *)
(* slept more often than it has queried.                                   *)
(***************************************************************************)
C12_SleepsBetweenAttempts ==
    \A r \in Reqs :
        /\ sleeps[r] <= attempts[r]
        /\ (pc[r] = "done" /\ attempts[r] >= 1) => sleeps[r] = attempts[r] - 1

\* What the handler does: n - 1 sleeps when the n-th status query ends the
\* request (success or exception), n = 30 sleeps when it times out.
C12_SleepAfterEveryPassedAttempt ==
    \A r \in Reqs :
        /\ sleeps[r] <= attempts[r]
        /\ pc[r] = "poll" => sleeps[r] = attempts[r]
        /\ pc[r] = "sleep" => sleeps[r] = attempts[r] - 1
        /\ (pc[r] = "done" /\ attempts[r] >= 1) =>
              sleeps[r] = (IF resp[r] = TimeoutError THEN attempts[r] ELSE attempts[r] - 1)

(***************************************************************************)
(* C13. Per request the steps occur in the order validate, submit, poll,   *)
(* respond: the job creation is issued only for a request that passed      *)
(* validation, at most once and never again; a status query is issued only *)
(* after the job creation was answered 200, with the generation id of that *)
(* answer; and once the response is returned it does not change and no     *)
(* upstream call of the request follows.                                   *)
(***************************************************************************)
C13_Order ==
    \A r \in Reqs :
        /\ posts[r] \in {0, 1}
        /\ pc[r] \in {"idle", "start"} => (posts[r] = 0 /\ attempts[r] = 0)
        /\ posts[r] = 1 =>
              /\ req[r].body = "object"
              /\ ~IdeaFalsy(req[r].idea)
              /\ prompt[r] # NoPrompt
        /\ pc[r] = "posting" <=> (posts[r] = 1 /\ created[r] = NoSubmitAnswer)
        /\ pc[r] = "posting" => attempts[r] = 0
        /\ attempts[r] >= 1 =>
              /\ posts[r] = 1
              /\ created[r].net = "ok" /\ created[r].status = 200
              /\ created[r].generationId # ""
              /\ queried[r] = created[r].generationId
        /\ pc[r] \in {"poll", "sleep"} => resp[r] = NoResponse
        /\ resp[r] # NoResponse <=> pc[r] = "done"

\* C13: the order above in every state, and in every step: the job creation
\* is issued only from the state with no upstream call yet, and nothing of a
\* request changes after its response.
C13_OrderAndNoCallAfterResponse ==
    /\ []C13_Order
    /\ [][ \A r \in Reqs :
             /\ posts'[r] >= posts[r]
             /\ posts'[r] > posts[r] => (posts[r] = 0 /\ attempts[r] = 0)
             /\ pc[r] = "done" =>
                  /\ pc'[r] = "done"
                  /\ resp'[r] = resp[r]
                  /\ posts'[r] = posts[r]
                  /\ attempts'[r] = attempts[r]
                  /\ sleeps'[r] = sleeps[r] ]_vars

C13_Witness ==
    \E r \in Reqs :
        /\ pc[r] = "done" /\ posts[r] = 1 /\ attempts[r] = 3
        /\ created[r].generationId = "g2" /\ queried[r] = "g2"
        /\ resp[r].status = 200

(***************************************************************************)
(* C14. Every request gets a response and only one: in every state it has  *)
(* issued at most 1 job-creation request and at most 30 status queries;    *)
(* its response is 200 success, 400 for the missing idea, the non-200      *)
(* status of the job creation, or 500; the response never changes; and,    *)
(* every upstream call returning or failing, the handler does respond.     *)
(***************************************************************************)
C14_Bounded ==
    \A r \in Reqs :
        /\ posts[r] <= 1
        /\ attempts[r] <= 30
        /\ sleeps[r] <= 30
        /\ pc[r] = "done" =>
             \/ resp[r].status = 200 /\ resp[r].fields = SuccessFields
             \/ resp[r] = NoIdeaError /\ posts[r] = 0
             \/ /\ IsError(resp[r])
                /\ created[r].net = "ok" /\ created[r].status # 200
                /\ resp[r].status = created[r].status
             \/ resp[r].status = 500 /\ IsError(resp[r])

\* C14: the bounds and the response kinds in every state, the response
\* unchanged by every step, and termination under SpecLive's fairness.
C14_TerminatesWithOneResponse ==
    /\ []C14_Bounded
    /\ [][ \A r \in Reqs : resp[r] # NoResponse => resp'[r] = resp[r] ]_vars
    /\ \A r \in Reqs : (pc[r] = "start") ~> (pc[r] = "done" /\ resp[r] # NoResponse)

C14_Witness ==
    \E r \in Reqs :
        /\ pc[r] = "done" /\ posts[r] = 1 /\ attempts[r] = 30
        /\ resp[r].status = 500 /\ IsError(resp[r])

(***************************************************************************)
(* C15. A status query that fails at the network level, or returns 200     *)
(* with a body lacking generations_by_pk / status, or 200 COMPLETE with no *)
(* image, is the request's last: the handler has responded at once with    *)
(* 500 and an error message that starts with "API request failed: ",       *)
(* whatever the number of attempts left.                                   *)
(***************************************************************************)
C15_MalformedCheckEndsRequest ==
    \A r \in Reqs :
        ( \/ checked[r].net = "fail"
          \/ /\ checked[r].net = "ok" /\ checked[r].status = 200
             /\ \/ checked[r].state = "missing"
                \/ checked[r].state = "COMPLETE" /\ checked[r].images = << >> ) =>
            /\ pc[r] = "done"
            /\ attempts[r] = nFailed[r] + nPending[r] + 1
            /\ sleeps[r] = attempts[r] - 1
            /\ resp[r].status = 500
            /\ resp[r].fields = {"error"}
            /\ resp[r].error # << >>
            /\ resp[r].error[1] = "API request failed: "

C15_Witness ==
    \E r \in Reqs :
        /\ checked[r] = CheckAnswer("ok", 200, "missing", << >>)
        /\ attempts[r] = 3 /\ nPending[r] = 1 /\ nFailed[r] = 1
        /\ pc[r] = "done" /\ resp[r].status = 500
        /\ resp[r].error[1] = "API request failed: "

====
